---- MODULE Spec2Model ----
(***************************************************************************)
(* Rain-Guessr map viewer: the room-file parser, the world placement and   *)
(* hit test of js/room-renderer.js and the view-rectangle arithmetic of    *)
(* js/moving_map_script.js.                                                *)
(*                                                                         *)
(* Text is modelled as a sequence of one-character strings, so that        *)
(* trimming, pattern matching and number conversion are computed the way   *)
(* the code computes them.                                                 *)
(***************************************************************************)
EXTENDS Integers, Sequences, FiniteSets

VARIABLES
    \* ---- RoomRenderer.parseRoomFile (one call, line by line)
    lines,            \* fileContent.split('\n')
    lineNo,           \* number of lines the for-of loop has taken
    roomData,         \* the record under construction
    geometryStarted,  \* let geometryStarted
    tileLines,        \* let tileLines
    parsePc,          \* "idle" | "scan" | "break" | "done"
    \* ---- RoomRenderer placement and hit test
    usePrecompiled,   \* RoomRenderer.usePrecompiled
    regionPositions,  \* RoomRenderer.regionPositions: region code -> {x, y}
    svgGroup,         \* the room groups of #rooms-group, in document order
    ret,              \* the last call of the renderer API and what it returned
    \* ---- moving_map_script.js (pan and zoom)
    svgViewBox,       \* the viewBox attribute of #map-svg: <<>> when absent, else <<rect>>
    viewBox,          \* viewBoxX, viewBoxY, viewBoxWidth, viewBoxHeight
    lastEvent,        \* the last pointer event handled
    wheelCount,       \* wheel events handled so far
    isDragging,       \* let isDragging
    dragStart,        \* startX, startY
    startViewBox,     \* let startViewBox
    dragCount,        \* mousedown events that started a drag so far
    \* ---- RoomRenderer.init, renderAllRegions and the page (map-init.js)
    files,            \* what the fetches of the session return
    allRooms,         \* RoomRenderer.allRooms: <<[region, rooms]>> in key order
    loadPc,           \* where the DOMContentLoaded handler stands
    pending,          \* region room lists whose fetch is in flight
    regionBatch,      \* const regionBatch of renderAllRegions
    counts,           \* the counts renderRegion has returned, in regionBatch order
    roomCount,        \* const roomCount of the page: <<>> until renderAllRegions resolves
    \* ---- RoomRenderer.loadRoomGeometry
    roomsCache,       \* RoomRenderer.roomsCache: cache key -> record
    fetches,          \* loadRoomGeometry calls waiting for their fetch
    callCount,        \* loadRoomGeometry calls made so far
    \* ---- room selection (map-init.js)
    selectedRoom,     \* let selectedRoom: <<>> for null, else <<room group>>
    selectedClass,    \* the room groups whose class list holds 'selected'
    hoveredClass,     \* the room groups whose class list holds 'hovered'
    infoHidden        \* whether the class list of #room-info holds 'hidden'

parseVars == <<lines, lineNo, roomData, geometryStarted, tileLines, parsePc>>
renderVars == <<usePrecompiled, regionPositions, svgGroup, ret>>
viewVars == <<svgViewBox, viewBox, lastEvent, wheelCount,
              isDragging, dragStart, startViewBox, dragCount>>
loadVars == <<files, allRooms, loadPc, pending, regionBatch, counts, roomCount>>
cacheVars == <<roomsCache, fetches, callCount>>
selectVars == <<selectedRoom, selectedClass, hoveredClass, infoHidden>>
vars == <<lines, lineNo, roomData, geometryStarted, tileLines, parsePc,
          usePrecompiled, regionPositions, svgGroup, ret,
          svgViewBox, viewBox, lastEvent, wheelCount,
          isDragging, dragStart, startViewBox, dragCount,
          files, allRooms, loadPc, pending, regionBatch, counts, roomCount,
          roomsCache, fetches, callCount,
          selectedRoom, selectedClass, hoveredClass, infoHidden>>

(***************************************************************************)
(* Bounds of the model.                                                    *)
(***************************************************************************)
MaxLines == 3
MaxRooms == 2      \* room groups inserted into the SVG group
MaxWheel == 2      \* wheel events in one run
MaxDrags == 1      \* drags started in one run
MaxCalls == 3      \* loadRoomGeometry calls in one run
ViewportW == 4     \* width of #map-container, in pixels
ViewportH == 2     \* height of #map-container, in pixels

(***************************************************************************)
(* Text helpers (String.prototype.trim / startsWith / includes / Number).  *)
(***************************************************************************)
Digits == {"0", "1", "2", "3", "4", "5", "6", "7", "8", "9"}

DigitVal(c) ==
    CASE c = "0" -> 0 [] c = "1" -> 1 [] c = "2" -> 2 [] c = "3" -> 3
      [] c = "4" -> 4 [] c = "5" -> 5 [] c = "6" -> 6 [] c = "7" -> 7
      [] c = "8" -> 8 [] c = "9" -> 9

\* white space; the blank is the only white space of the modelled files
IsSpace(c) == c = " "

RECURSIVE TrimStart(_)
TrimStart(s) ==
    IF s # <<>> /\ IsSpace(Head(s)) THEN TrimStart(Tail(s)) ELSE s

RECURSIVE TrimEnd(_)
TrimEnd(s) ==
    IF s # <<>> /\ IsSpace(s[Len(s)]) THEN TrimEnd(SubSeq(s, 1, Len(s) - 1)) ELSE s

\* String.prototype.trim
Trim(s) == TrimEnd(TrimStart(s))

\* String.prototype.startsWith
StartsWith(s, p) == Len(s) >= Len(p) /\ SubSeq(s, 1, Len(p)) = p

\* String.prototype.includes, for one character
Includes(s, c) == \E i \in 1..Len(s) : s[i] = c

\* String.prototype.indexOf, for one character, 1-based; 0 when absent
IndexOf(s, c) ==
    IF Includes(s, c) THEN CHOOSE i \in 1..Len(s) : s[i] = c /\ \A j \in 1..(i - 1) : s[j] # c
    ELSE 0

\* \d+
IsDigits(s) == Len(s) >= 1 /\ \A i \in 1..Len(s) : s[i] \in Digits

\* -?\d+
IsSignedDigits(s) ==
    IF s # <<>> /\ Head(s) = "-" THEN IsDigits(Tail(s)) ELSE IsDigits(s)

\* Number() of a string of digits (leading zeros allowed)
RECURSIVE Number(_)
Number(s) ==
    IF s = <<>> THEN 0 ELSE 10 * Number(SubSeq(s, 1, Len(s) - 1)) + DigitVal(s[Len(s)])

\* Number() of a token -?\d+
SignedNumber(s) == IF Head(s) = "-" THEN 0 - Number(Tail(s)) ELSE Number(s)

\* the text before and after the first 'x'
BeforeX(t) == SubSeq(t, 1, IndexOf(t, "x") - 1)
AfterX(t) == SubSeq(t, IndexOf(t, "x") + 1, Len(t))

(***************************************************************************)
(* Line classification of parseRoomFile.                                   *)
(***************************************************************************)
PieceMarker == <<"P", "i", "e", "c", "e", " ", ":">>
EndMarker == <<"e", "n", "d", " ", "f", "i", "l", "e", " ", ":", " ">>
UndefinedText == <<"u", "n", "d", "e", "f", "i", "n", "e", "d">>

\* the characters of /^[.#|+\-=HV\/]/
TileChars == {".", "#", "|", "+", "-", "=", "H", "V", "/"}

\* trimmed.startsWith('Piece :')
IsPieceLine(t) == StartsWith(t, PieceMarker)

\* /^\d+x\d+$/.test(trimmed)
IsSizeLine(t) == Includes(t, "x") /\ IsDigits(BeforeX(t)) /\ IsDigits(AfterX(t))

\* /^-?\d+x-?\d+$/.test(trimmed)
IsPositionLine(t) ==
    Includes(t, "x") /\ IsSignedDigits(BeforeX(t)) /\ IsSignedDigits(AfterX(t))

\* trimmed.match(/^[.#|+\-=HV\/]/)
IsTileStart(t) == t # <<>> /\ Head(t) \in TileChars

\* trimmed.includes('(') && trimmed.includes('|')
IsGeometryText(t) == Includes(t, "(") /\ Includes(t, "|")

\* 'end file : ' + roomData.fullName; fullName is <<>> while undefined and
\* <<text>> once set: string concatenation writes undefined as "undefined"
EndLineFor(fullName) ==
    EndMarker \o (IF fullName = <<>> THEN UndefinedText ELSE fullName[1])

\* the record parseRoomFile starts from
NewRoomData(regionCode, roomName) ==
    [ name |-> roomName, regionCode |-> regionCode, fullName |-> <<>>,
      width |-> 0, height |-> 0, position |-> [x |-> 0, y |-> 0],
      tiles |-> <<>>, geometry |-> <<>>, tileMap |-> <<>> ]

\* The scan state is [rd, gs, tl, brk]: roomData, geometryStarted, tileLines
\* and whether the loop has hit break.
NewScan(regionCode, roomName) ==
    [ rd |-> NewRoomData(regionCode, roomName), gs |-> FALSE, tl |-> <<>>, brk |-> FALSE ]

\* the tile-row test without the geometryStarted guard
TakesTileRowIgnoringFlag(gs, trimmed) == IsTileStart(trimmed)

\* !geometryStarted && trimmed.match(/^[.#|+\-=HV\/]/)
TakesTileRow(gs, trimmed) == ~gs /\ IsTileStart(trimmed)

\* an end-marker test that never succeeds
IsEndLineNever(fullName, trimmed) == FALSE

\* trimmed === 'end file : ' + roomData.fullName
IsEndLine(fullName, trimmed) == trimmed = EndLineFor(fullName)

\* one iteration of the for-of loop on one line
ScanStep(s, line) ==
    LET trimmed == Trim(line) IN
    IF IsPieceLine(trimmed) THEN
        [s EXCEPT !.rd.fullName = <<Trim(SubSeq(trimmed, Len(PieceMarker) + 1, Len(trimmed)))>>]
    ELSE IF IsSizeLine(trimmed) THEN
        [s EXCEPT !.rd.width = Number(BeforeX(trimmed)),
                  !.rd.height = Number(AfterX(trimmed))]
    ELSE IF IsPositionLine(trimmed) THEN
        [s EXCEPT !.rd.position = [x |-> SignedNumber(BeforeX(trimmed)),
                                   y |-> SignedNumber(AfterX(trimmed))]]
    ELSE IF TakesTileRow(s.gs, trimmed) THEN
        [s EXCEPT !.tl = Append(@, line)]
    ELSE IF IsGeometryText(trimmed) THEN
        [s EXCEPT !.rd.geometry = Append(@, trimmed), !.gs = TRUE]
    ELSE IF IsEndLine(s.rd.fullName, trimmed) THEN
        [s EXCEPT !.brk = TRUE]
    ELSE s

\* the whole loop, from scan state s over the lines ls
RECURSIVE ScanLines(_, _)
ScanLines(s, ls) ==
    IF ls = <<>> \/ s.brk THEN s ELSE ScanLines(ScanStep(s, Head(ls)), Tail(ls))

\* roomData.tileMap = tileLines; return roomData
StoreTileMap(s) == [s.rd EXCEPT !.tileMap = s.tl]

\* parseRoomFile(fileContent, regionCode, roomName), fileContent given as its lines
ParseRoomFile(ls, regionCode, roomName) ==
    StoreTileMap(ScanLines(NewScan(regionCode, roomName), ls))

(***************************************************************************)
(* Room files the scan is run on: every sequence of 1..MaxLines lines of   *)
(* the pool below (split('\n') never returns an empty array).              *)
(***************************************************************************)
LinePool ==
    { <<"P", "i", "e", "c", "e", " ", ":", " ", "A">>,            \* Piece : A
      <<"3", "x", "2">>,                                           \* 3x2
      <<" ", "1", "2", "x", "0", "7", " ">>,                       \* " 12x07 "
      <<"-", "1", "x", "2">>,                                      \* -1x2
      <<"4", "x", "-", "5">>,                                      \* 4x-5
      <<"4", "x", "5">>,                                           \* 4x5
      <<".", "#">>,                                                \* .#
      <<" ", "|", ".">>,                                           \* " |."
      <<"|", "(">>,                                                \* |(
      <<"(", "|">>,                                                \* (|
      PieceMarker \o <<" ", "(", "|">>,                            \* Piece : (|
      <<"V", ".">>,                                                \* V.
      <<"x">>,                                                     \* x
      EndMarker \o <<"A">>,                                        \* end file : A
      EndMarker \o <<"(", "|">>,                                   \* end file : (|
      EndMarker \o UndefinedText }                                 \* end file : undefined

RECURSIVE SeqsUpTo(_, _)
SeqsUpTo(S, n) ==
    IF n = 0 THEN {<<>>}
    ELSE LET shorter == SeqsUpTo(S, n - 1) IN
         shorter \cup {Append(q, e) : q \in {r \in shorter : Len(r) = n - 1}, e \in S}

RoomFiles == SeqsUpTo(LinePool, MaxLines) \ {<<>>}

ArgRegionCode == "CC"
ArgRoomName == "A"

(***************************************************************************)
(* World placement (renderRoomToSVG / renderRoomToCanvas) and the hit     *)
(* test (getRoomAtPoint).  Attributes of a room group are text: numbers    *)
(* are written with NumToString (setAttribute) and read back with ParseInt.   *)
(***************************************************************************)
TILE_SIZE == 15

DigitChar(d) ==
    CASE d = 0 -> "0" [] d = 1 -> "1" [] d = 2 -> "2" [] d = 3 -> "3"
      [] d = 4 -> "4" [] d = 5 -> "5" [] d = 6 -> "6" [] d = 7 -> "7"
      [] d = 8 -> "8" [] d = 9 -> "9"

RECURSIVE NatToString(_)
NatToString(n) ==
    IF n < 10 THEN <<DigitChar(n)>> ELSE Append(NatToString(n \div 10), DigitChar(n % 10))

\* String(n) for an integer n, as setAttribute(name, n) stores it
NumToString(n) == IF n < 0 THEN <<"-">> \o NatToString(0 - n) ELSE NatToString(n)

\* the leading run of digits of s
RECURSIVE DigitPrefix(_)
DigitPrefix(s) ==
    IF s # <<>> /\ Head(s) \in Digits THEN <<Head(s)>> \o DigitPrefix(Tail(s)) ELSE <<>>

\* parseInt(s) for a text that starts with -?\d
ParseInt(s) ==
    IF s # <<>> /\ Head(s) = "-" THEN 0 - Number(DigitPrefix(Tail(s)))
    ELSE Number(DigitPrefix(s))

\* region offsets known to the renderer (region_pos.txt: CC:-570x897)
RegionTable == [r \in {"CC"} |-> [x |-> 0 - 570, y |-> 897]]
RegionCodes == {"CC", "XX"}
RoomPositions == {[x |-> 0 - 749, y |-> 0 - 582], [x |-> 0 - 748, y |-> 0 - 582]}
\* worldPos of a precompiled record: <<>> when the record has none
WorldPosInputs == {<<>>, <<[x |-> 0 - 26380, y |-> 6300]>>}

\* <<width, height>> of a record, in tiles: non-negative integers, 0 for an
\* absent or unparsed size
RoomSizes == {<<0, 1>>, <<1, 0>>, <<2, 1>>}

\* the records renderRoomToSVG is called with (the fields it reads)
RoomInputs ==
    { [name |-> "A", fullName |-> <<>>, regionCode |-> r, width |-> wh[1], height |-> wh[2],
       position |-> p, worldPos |-> wp] :
        r \in RegionCodes, wh \in RoomSizes, p \in RoomPositions, wp \in WorldPosInputs }

\* !roomData.width || !roomData.height
InvalidRoomData(rd) == rd.width = 0 \/ rd.height = 0

\* renderRoomToCanvas: <<>> for null, else <<the canvas size>>
RenderRoomToCanvas(rd) ==
    IF InvalidRoomData(rd) THEN <<>>
    ELSE <<[width |-> rd.width * TILE_SIZE, height |-> rd.height * TILE_SIZE]>>

\* the world position with the region treated as offset 0 when unknown
WorldPositionNoRegionCheck(rd, precompiled, regions) ==
    IF precompiled /\ rd.worldPos # <<>> THEN rd.worldPos
    ELSE LET regionPos == IF rd.regionCode \in DOMAIN regions
                          THEN regions[rd.regionCode] ELSE [x |-> 0, y |-> 0] IN
         <<[x |-> (regionPos.x + rd.position.x) * TILE_SIZE,
            y |-> (regionPos.y + rd.position.y) * TILE_SIZE]>>

\* the world position with x and y of the room position swapped
WorldPositionSwapped(rd, precompiled, regions) ==
    IF precompiled /\ rd.worldPos # <<>> THEN rd.worldPos
    ELSE IF rd.regionCode \notin DOMAIN regions THEN <<>>
    ELSE LET regionPos == regions[rd.regionCode] IN
         <<[x |-> (regionPos.x + rd.position.y) * TILE_SIZE,
            y |-> (regionPos.y + rd.position.x) * TILE_SIZE]>>

\* "Get world position" of renderRoomToSVG: <<>> when the function returns
\* null for want of a region position, else <<{worldX, worldY}>>
WorldPosition(rd, precompiled, regions) ==
    IF precompiled /\ rd.worldPos # <<>> THEN rd.worldPos
    ELSE IF rd.regionCode \notin DOMAIN regions THEN <<>>
    ELSE LET regionPos == regions[rd.regionCode] IN
         <<[x |-> (regionPos.x + rd.position.x) * TILE_SIZE,
            y |-> (regionPos.y + rd.position.y) * TILE_SIZE]>>

\* the room group renderRoomToSVG builds; placement is what the image and
\* the hit rectangle of the group are drawn with
RoomGroup(rd, world, canvas) ==
    [ dataRoom |-> IF rd.fullName # <<>> THEN rd.fullName[1] ELSE rd.name,
      dataRegion |-> rd.regionCode,
      dataPosX |-> NumToString(world.x),
      dataPosY |-> NumToString(world.y),
      dataWidth |-> NumToString(canvas.width),
      dataHeight |-> NumToString(canvas.height),
      placement |-> [x |-> world.x, y |-> world.y, w |-> canvas.width, h |-> canvas.height] ]

\* renderRoomToSVG's return value: <<>> for null, else <<roomGroup>>
RenderRoomToSVG(rd, precompiled, regions) ==
    IF InvalidRoomData(rd) THEN <<>>
    ELSE LET world == WorldPosition(rd, precompiled, regions)
             canvas == RenderRoomToCanvas(rd) IN
         IF world = <<>> THEN <<>>
         ELSE IF canvas = <<>> THEN <<>>
         ELSE <<RoomGroup(rd, world[1], canvas[1])>>

\* the hit test with the far edges included
HitsInclusive(g, x, y) ==
    LET roomX == ParseInt(g.dataPosX)
        roomY == ParseInt(g.dataPosY)
        roomW == ParseInt(g.dataWidth)
        roomH == ParseInt(g.dataHeight) IN
    x >= roomX /\ y >= roomY /\ x <= roomX + roomW /\ y <= roomY + roomH

\* the test of getRoomAtPoint on one room group
Hits(g, x, y) ==
    LET roomX == ParseInt(g.dataPosX)
        roomY == ParseInt(g.dataPosY)
        roomW == ParseInt(g.dataWidth)
        roomH == ParseInt(g.dataHeight) IN
    x >= roomX /\ y >= roomY /\ x < roomX + roomW /\ y < roomY + roomH

\* getRoomAtPoint for an existing SVG group (the !svgGroup return is not
\* modelled): <<>> for null, else <<{name, region, x, y, svgElement}>>;
\* svgElement is the place of the group in the SVG group
RECURSIVE GetRoomAtPointFrom(_, _, _, _)
GetRoomAtPointFrom(i, x, y, groups) ==
    IF i > Len(groups) THEN <<>>
    ELSE IF Hits(groups[i], x, y)
         THEN <<[name |-> groups[i].dataRoom, region |-> groups[i].dataRegion,
                 x |-> ParseInt(groups[i].dataPosX), y |-> ParseInt(groups[i].dataPosY),
                 svgElement |-> i]>>
         ELSE GetRoomAtPointFrom(i + 1, x, y, groups)

GetRoomAtPoint(x, y, groups) == GetRoomAtPointFrom(1, x, y, groups)

\* points asked about: on and next to every edge of every placed room
EdgeXs == UNION {{g.placement.x - 1, g.placement.x, g.placement.x + g.placement.w - 1,
                  g.placement.x + g.placement.w} : g \in {svgGroup[i] : i \in 1..Len(svgGroup)}}
EdgeYs == UNION {{g.placement.y - 1, g.placement.y, g.placement.y + g.placement.h - 1,
                  g.placement.y + g.placement.h} : g \in {svgGroup[i] : i \in 1..Len(svgGroup)}}

NoCall == [op |-> "none"]

RenderIdle ==
    /\ usePrecompiled = FALSE
    /\ regionPositions = RegionTable
    /\ svgGroup = <<>>
    /\ ret = NoCall


(***************************************************************************)
(* The view rectangle of moving_map_script.js.  Its numbers are exact      *)
(* rationals [n, d] in lowest terms with d > 0: the zoom factors 1.2 and   *)
(* 0.8 and the divisions by the aspect ratio and by the container size     *)
(* leave the integers.  JavaScript computes the same expressions in        *)
(* doubles, rounding each operation.                                       *)
(***************************************************************************)
Abs(k) == IF k < 0 THEN 0 - k ELSE k

RECURSIVE GCD(_, _)
GCD(a, b) == IF b = 0 THEN a ELSE GCD(b, a % b)

\* n / d in lowest terms, d # 0
Rat(n, d) ==
    LET g == GCD(Abs(n), Abs(d))
        sgn == IF d < 0 THEN 0 - 1 ELSE 1 IN
    [n |-> sgn * (n \div g), d |-> sgn * (d \div g)]

RInt(k) == [n |-> k, d |-> 1]

RAdd(a, b) ==
    LET g == GCD(a.d, b.d) IN
    Rat(a.n * (b.d \div g) + b.n * (a.d \div g), (a.d \div g) * b.d)

RSub(a, b) == RAdd(a, [n |-> 0 - b.n, d |-> b.d])

RMul(a, b) ==
    LET g1 == GCD(Abs(a.n), b.d)
        g2 == GCD(Abs(b.n), a.d) IN
    IF a.n = 0 \/ b.n = 0 THEN RInt(0)
    ELSE [n |-> (a.n \div g1) * (b.n \div g2), d |-> (a.d \div g2) * (b.d \div g1)]

\* a / b, b # 0
RDiv(a, b) == RMul(a, Rat(b.d, b.n))

RLess(a, b) == a.n * b.d < b.n * a.d
RMax(a, b) == IF RLess(a, b) THEN b ELSE a
RMin(a, b) == IF RLess(b, a) THEN b ELSE a

MinExtent == 500
MaxExtent == 50000
DefaultExtent == 10000

\* e.deltaY > 0 ? 1.2 : 0.8
ZoomFactor(deltaY) == IF deltaY > 0 THEN Rat(6, 5) ELSE Rat(4, 5)

\* Number(part) || fallback
OrDefault(v, fallback) == IF v.n = 0 THEN RInt(fallback) ELSE v

\* let viewBoxX = 0, viewBoxY = 0, viewBoxWidth = 10000, viewBoxHeight = 10000
InitialViewBox ==
    [x |-> RInt(0), y |-> RInt(0), width |-> RInt(DefaultExtent), height |-> RInt(DefaultExtent)]

\* getViewBox(): the variables after reading the attribute attr back.  The
\* attribute is the four numbers written in decimal; Number() of a number
\* written by a template literal is that number again.
GetViewBox(attr, current) ==
    IF attr = <<>> THEN current
    ELSE [x |-> OrDefault(attr[1].x, 0), y |-> OrDefault(attr[1].y, 0),
          width |-> OrDefault(attr[1].width, DefaultExtent),
          height |-> OrDefault(attr[1].height, DefaultExtent)]

\* Math.max(500, Math.min(50000, extent * zoomFactor))
ClampExtent(v) == RMax(RInt(MinExtent), RMin(RInt(MaxExtent), v))

\* the wheel handler with the new position computed from the clamped
\* extents instead of the final ones
ZoomedPositionFromClamped(vb, mouseX, mouseY, deltaY) ==
    LET fx == Rat(mouseX, ViewportW)
        fy == Rat(mouseY, ViewportH)
        worldX == RAdd(vb.x, RMul(fx, vb.width))
        worldY == RAdd(vb.y, RMul(fy, vb.height))
        newWidth == ClampExtent(RMul(vb.width, ZoomFactor(deltaY)))
        newHeight == ClampExtent(RMul(vb.height, ZoomFactor(deltaY)))
        aspectRatio == RDiv(vb.width, vb.height)
        newAspect == RDiv(newWidth, newHeight)
        finalWidth == IF RLess(aspectRatio, newAspect) THEN newWidth
                      ELSE RMul(newHeight, aspectRatio)
        finalHeight == IF RLess(aspectRatio, newAspect) THEN RDiv(newWidth, aspectRatio)
                       ELSE newHeight IN
    [x |-> RSub(worldX, RMul(fx, newWidth)), y |-> RSub(worldY, RMul(fy, newHeight)),
     width |-> finalWidth, height |-> finalHeight]

\* the wheel handler from the rectangle vb that getViewBox() returned: the
\* rectangle it passes to setViewBox
Zoomed(vb, mouseX, mouseY, deltaY) ==
    LET fx == Rat(mouseX, ViewportW)
        fy == Rat(mouseY, ViewportH)
        worldX == RAdd(vb.x, RMul(fx, vb.width))
        worldY == RAdd(vb.y, RMul(fy, vb.height))
        newWidth == ClampExtent(RMul(vb.width, ZoomFactor(deltaY)))
        newHeight == ClampExtent(RMul(vb.height, ZoomFactor(deltaY)))
        aspectRatio == RDiv(vb.width, vb.height)
        newAspect == RDiv(newWidth, newHeight)
        finalWidth == IF RLess(aspectRatio, newAspect) THEN newWidth
                      ELSE RMul(newHeight, aspectRatio)
        finalHeight == IF RLess(aspectRatio, newAspect) THEN RDiv(newWidth, aspectRatio)
                       ELSE newHeight IN
    [x |-> RSub(worldX, RMul(fx, finalWidth)), y |-> RSub(worldY, RMul(fy, finalHeight)),
     width |-> finalWidth, height |-> finalHeight]

\* viewBox attributes the page can hold when an event arrives: none, or a
\* rectangle fitted to the rooms by adjustSVGBounds
FittedViewBoxes ==
    { [x |-> RInt(0 - 26880), y |-> RInt(4225), width |-> RInt(48000), height |-> RInt(10000)],
      [x |-> RInt(0 - 500), y |-> RInt(100), width |-> RInt(600), height |-> RInt(1200)] }

\* cursor positions inside the container, and wheel directions
MouseXs == {0, 1, ViewportW}
MouseYs == {1}
DeltaYs == {0 - 1, 1}

\* pointer positions of the mousedown and mousemove events
DragXs == {0, ViewportW}
DragYs == {1}

\* let startViewBox = { x: 0, y: 0, width: 0, height: 0 }
InitialStartViewBox == [x |-> RInt(0), y |-> RInt(0), width |-> RInt(0), height |-> RInt(0)]

\* the rectangle the mousemove handler passes to setViewBox, from the drag
\* start (startX, startY, startViewBox) and the pointer at (clientX, clientY)
Dragged(start, from, clientX, clientY) ==
    LET deltaX == RMul(Rat(clientX - start.x, ViewportW), from.width)
        deltaY == RMul(Rat(clientY - start.y, ViewportH), from.height) IN
    [x |-> RSub(from.x, deltaX), y |-> RSub(from.y, deltaY),
     width |-> from.width, height |-> from.height]

\* the mousemove rectangle with the extents left out of setViewBox
DraggedKeepingExtents(start, from, clientX, clientY, current) ==
    LET deltaX == RMul(Rat(clientX - start.x, ViewportW), from.width)
        deltaY == RMul(Rat(clientY - start.y, ViewportH), from.height) IN
    [x |-> RSub(from.x, deltaX), y |-> RSub(from.y, deltaY),
     width |-> current.width, height |-> current.height]

SetMin(S) == CHOOSE v \in S : \A w \in S : v <= w
SetMax(S) == CHOOSE v \in S : \A w \in S : w <= v

\* const padding = 200
ResetPadding == 200

\* the reset rectangle with the padding added once to the extents
ResetMapViewSinglePadding(groups) ==
    IF Len(groups) = 0 THEN InitialViewBox
    ELSE LET rooms == {groups[i] : i \in 1..Len(groups)}
             minX == SetMin({ParseInt(g.dataPosX) : g \in rooms})
             minY == SetMin({ParseInt(g.dataPosY) : g \in rooms})
             maxX == SetMax({ParseInt(g.dataPosX) + ParseInt(g.dataWidth) : g \in rooms})
             maxY == SetMax({ParseInt(g.dataPosY) + ParseInt(g.dataHeight) : g \in rooms}) IN
         [x |-> RInt(minX - ResetPadding), y |-> RInt(minY - ResetPadding),
          width |-> RInt(maxX - minX + ResetPadding),
          height |-> RInt(maxY - minY + ResetPadding)]

\* resetMapView(): the rectangle it passes to setViewBox, from the room
\* groups of #rooms-group.  parseInt(attr) || 0 is parseInt(attr) for the
\* attributes renderRoomToSVG writes (never NaN).
ResetMapView(groups) ==
    IF Len(groups) = 0 THEN InitialViewBox
    ELSE LET rooms == {groups[i] : i \in 1..Len(groups)}
             minX == SetMin({ParseInt(g.dataPosX) : g \in rooms})
             minY == SetMin({ParseInt(g.dataPosY) : g \in rooms})
             maxX == SetMax({ParseInt(g.dataPosX) + ParseInt(g.dataWidth) : g \in rooms})
             maxY == SetMax({ParseInt(g.dataPosY) + ParseInt(g.dataHeight) : g \in rooms}) IN
         [x |-> RInt(minX - ResetPadding), y |-> RInt(minY - ResetPadding),
          width |-> RInt(maxX - minX + ResetPadding * 2),
          height |-> RInt(maxY - minY + ResetPadding * 2)]

NoEvent == [type |-> "none"]

ViewIdle ==
    /\ svgViewBox = <<>>
    /\ viewBox = InitialViewBox
    /\ lastEvent = NoEvent
    /\ wheelCount = 0
    /\ isDragging = FALSE
    /\ dragStart = [x |-> 0, y |-> 0]
    /\ startViewBox = InitialStartViewBox
    /\ dragCount = 0

ViewInit ==
    /\ svgViewBox \in {<<>>} \cup {<<r>> : r \in FittedViewBoxes}
    /\ viewBox = InitialViewBox
    /\ lastEvent = NoEvent
    /\ wheelCount = 0
    /\ isDragging = FALSE
    /\ dragStart = [x |-> 0, y |-> 0]
    /\ startViewBox = InitialStartViewBox
    /\ dragCount = 0

\* container 'wheel' listener; before is the rectangle getViewBox() read
Wheel ==
    /\ wheelCount < MaxWheel
    /\ \E mouseX \in MouseXs, mouseY \in MouseYs, deltaY \in DeltaYs :
        LET z == Zoomed(GetViewBox(svgViewBox, viewBox), mouseX, mouseY, deltaY) IN
        /\ viewBox' = z
        /\ svgViewBox' = <<z>>
        /\ lastEvent' = [type |-> "wheel", mouseX |-> mouseX, mouseY |-> mouseY, deltaY |-> deltaY,
                         before |-> GetViewBox(svgViewBox, viewBox)]
    /\ wheelCount' = wheelCount + 1
    /\ UNCHANGED <<isDragging, dragStart, startViewBox, dragCount, parseVars, selectVars, renderVars, loadVars, cacheVars>>

\* container 'mousedown' listener, for a left click that is not on a room
\* (the other clicks return before changing anything)
MouseDown ==
    /\ dragCount < MaxDrags
    /\ \E clientX \in DragXs, clientY \in DragYs :
        /\ dragStart' = [x |-> clientX, y |-> clientY]
        /\ lastEvent' = [type |-> "mousedown", mouseX |-> clientX, mouseY |-> clientY]
    /\ isDragging' = TRUE
    /\ viewBox' = GetViewBox(svgViewBox, viewBox)
    /\ startViewBox' = GetViewBox(svgViewBox, viewBox)
    /\ dragCount' = dragCount + 1
    /\ UNCHANGED <<svgViewBox, wheelCount, parseVars, selectVars, renderVars, loadVars, cacheVars>>

\* container 'mousemove' listener while dragging (it returns at once when
\* no drag is in progress); before is the rectangle in force before the move
MouseMove ==
    /\ isDragging
    /\ \E clientX \in DragXs, clientY \in DragYs :
        LET d == Dragged(dragStart, startViewBox, clientX, clientY) IN
        /\ viewBox' = d
        /\ svgViewBox' = <<d>>
        /\ lastEvent' = [type |-> "mousemove", mouseX |-> clientX, mouseY |-> clientY,
                         before |-> viewBox]
    /\ UNCHANGED <<wheelCount, isDragging, dragStart, startViewBox, dragCount,
                   parseVars, selectVars, renderVars, loadVars, cacheVars>>

\* container 'mouseup' listener while dragging
MouseUp ==
    /\ isDragging
    /\ isDragging' = FALSE
    /\ lastEvent' = [type |-> "mouseup"]
    /\ UNCHANGED <<svgViewBox, viewBox, wheelCount, dragStart, startViewBox, dragCount,
                   parseVars, selectVars, renderVars, loadVars, cacheVars>>

\* container 'mouseleave' listener while dragging
MouseLeave ==
    /\ isDragging
    /\ isDragging' = FALSE
    /\ lastEvent' = [type |-> "mouseleave"]
    /\ UNCHANGED <<svgViewBox, viewBox, wheelCount, dragStart, startViewBox, dragCount,
                   parseVars, selectVars, renderVars, loadVars, cacheVars>>

ViewNext == Wheel \/ MouseDown \/ MouseMove \/ MouseUp \/ MouseLeave

(***************************************************************************)
(* Loading and bulk rendering: RoomRenderer.init, renderRegion,            *)
(* renderAllRegions and the DOMContentLoaded handler of map-init.js.       *)
(* allRooms is an object whose keys keep their insertion order: it is the  *)
(* sequence of its [region, rooms] entries.  A missing file is <<>>.       *)
(***************************************************************************)
\* const batchSize = 50
BatchSize == 50

\* regions.slice(0, 11)
RegionSliceLimit == 11

\* a room record of the precompiled data
Room(name, regionCode, w, h, wp) ==
    [ name |-> name, fullName |-> <<>>, regionCode |-> regionCode, width |-> w, height |-> h,
      position |-> [x |-> 0 - 749, y |-> 0 - 582], worldPos |-> wp ]

\* an entry of a room list loaded from cf-XX-rooms.txt: a room name, which
\* has no width, height or position
RoomNameEntry(n) == [roomName |-> n]

\* precompiled data without rooms
EmptyWorld == [rooms |-> <<>>, regionPositions |-> <<>>]

\* precompiled data of two regions; region XX has no offset, room B has no
\* size, rooms C and D differ in having a worldPos
SmallWorld ==
    [ rooms |-> << [region |-> "CC",
                    rooms |-> <<Room("A", "CC", 2, 1, <<>>), Room("B", "CC", 0, 1, <<>>)>>],
                   [region |-> "XX",
                    rooms |-> <<Room("C", "XX", 2, 1, <<>>),
                                Room("D", "XX", 2, 1, <<[x |-> 0 - 26380, y |-> 6300]>>)>>] >>,
      regionPositions |-> <<RegionTable>> ]

\* precompiled data of twelve regions with one placed room each
RegionNames == <<"CC", "DS", "GW", "HI", "LF", "SB", "SH", "SI", "SL", "SS", "SU", "UW">>
LargeWorld ==
    [ rooms |-> [i \in 1..Len(RegionNames) |->
                    [region |-> RegionNames[i],
                     rooms |-> <<Room("A", RegionNames[i], 2, 1, <<[x |-> 30 * i, y |-> 0]>>)>>]],
      regionPositions |-> <<>> ]

\* the room lists on the server (cf-XX-rooms.txt), by region
RoomListFiles == [r \in {"CC", "XX"} |-> IF r = "CC" THEN <<"A", "B">> ELSE <<"C">>]

\* what the fetches of one session return
FileInputs ==
    [ precompiled : {<<>>, <<EmptyWorld>>, <<SmallWorld>>, <<LargeWorld>>},
      regionPos : {<<>>, <<RegionTable>>},
      regionsTxt : {<<>>, << <<"CC", "XX">> >>},
      roomLists : SUBSET (DOMAIN RoomListFiles) ]

\* Object.keys(allRooms)
Keys(ar) == [i \in 1..Len(ar) |-> ar[i].region]

HasKey(ar, k) == \E i \in 1..Len(ar) : ar[i].region = k

\* allRooms[k] = v
Put(ar, k, v) ==
    IF HasKey(ar, k)
    THEN [i \in 1..Len(ar) |-> IF ar[i].region = k THEN [region |-> k, rooms |-> v] ELSE ar[i]]
    ELSE Append(ar, [region |-> k, rooms |-> v])

\* allRooms[k] || []
RoomsOf(ar, k) ==
    IF HasKey(ar, k) THEN ar[CHOOSE i \in 1..Len(ar) : ar[i].region = k].rooms ELSE <<>>

\* Array.prototype.slice(0, n)
Slice(q, n) == SubSeq(q, 1, IF Len(q) < n THEN Len(q) ELSE n)

\* roomData && roomData.width > 0 && roomData.height > 0
HasSize(rd) == "width" \in DOMAIN rd /\ rd.width > 0 /\ rd.height > 0

\* one batch of renderRegion: acc is [groups, count], the SVG group and
\* the sum of the values the callbacks return
RECURSIVE RenderBatch(_, _, _, _)
RenderBatch(batch, acc, precompiled, regions) ==
    IF batch = <<>> THEN acc
    ELSE LET rd == Head(batch)
             next == IF HasSize(rd)
                     THEN [groups |-> acc.groups \o RenderRoomToSVG(rd, precompiled, regions),
                           count |-> acc.count + 1]
                     ELSE acc IN
         RenderBatch(Tail(batch), next, precompiled, regions)

\* renderRegion(regionCode, svgGroup): the SVG group afterwards and the
\* returned count.  The room lists of the model are shorter than BatchSize,
\* so the batch loop has one iteration, which runs to completion when
\* renderRegion is called.
RenderRegion(regionCode, ar, groups, precompiled, regions) ==
    RenderBatch(Slice(RoomsOf(ar, regionCode), BatchSize),
                [groups |-> groups, count |-> 0], precompiled, regions)

RECURSIVE Sum(_)
Sum(q) == IF q = <<>> THEN 0 ELSE Head(q) + Sum(Tail(q))

\* const padding = 500 of adjustSVGBounds
BoundsPadding == 500

\* adjustSVGBounds: the viewBox attribute of the SVG afterwards
AdjustSVGBounds(groups, attr) ==
    IF Len(groups) = 0 THEN attr
    ELSE LET rooms == {groups[i] : i \in 1..Len(groups)}
             minX == SetMin({ParseInt(g.dataPosX) : g \in rooms}) - BoundsPadding
             minY == SetMin({ParseInt(g.dataPosY) : g \in rooms}) - BoundsPadding
             maxX == SetMax({ParseInt(g.dataPosX) + ParseInt(g.dataWidth) : g \in rooms})
             maxY == SetMax({ParseInt(g.dataPosY) + ParseInt(g.dataHeight) : g \in rooms}) IN
         <<[x |-> RInt(minX), y |-> RInt(minY),
            width |-> RInt(maxX - minX + BoundsPadding),
            height |-> RInt(maxY - minY + BoundsPadding)]>>

\* regionPositions: {}
NoRegions == [r \in {} |-> [x |-> 0, y |-> 0]]

LoadIdle ==
    /\ files = [precompiled |-> <<>>, regionPos |-> <<>>, regionsTxt |-> <<>>, roomLists |-> {}]
    /\ allRooms = <<>>
    /\ loadPc = "idle"
    /\ pending = {}
    /\ regionBatch = <<>>
    /\ counts = <<>>
    /\ roomCount = <<>>

(***************************************************************************)
(* The room cache of loadRoomGeometry.  Region codes and room names are    *)
(* text, so that the cache key is the concatenation the code builds.       *)
(***************************************************************************)
TxtSuffix == <<".", "t", "x", "t">>

\* String.prototype.endsWith
EndsWith(s, suffix) ==
    Len(s) >= Len(suffix) /\ SubSeq(s, Len(s) - Len(suffix) + 1, Len(s)) = suffix

\* `${regionCode}_${roomName}`
CacheKey(regionCode, roomName) == regionCode \o <<"_">> \o roomName

\* roomName.endsWith('.txt') ? roomName.slice(0, -4) : roomName
CleanRoomName(roomName) ==
    IF EndsWith(roomName, TxtSuffix) THEN SubSeq(roomName, 1, Len(roomName) - Len(TxtSuffix))
    ELSE roomName

\* arguments loadRoomGeometry is called with
CacheRegionCodes == {<<"C", "C">>, <<"C", "C", "_", "A">>}
CacheRoomNames == {<<"A", "_", "B">>, <<"B">>, <<"B", ".", "t", "x", "t">>}

\* the text of ../map/World/Regions/Rooms/<regionCode>-rooms/<cleanRoomName>.txt,
\* as its lines
RoomFileText(regionCode, cleanRoomName) ==
    <<PieceMarker \o <<" ">> \o cleanRoomName, <<"3", "x", "2">>, EndMarker \o cleanRoomName>>

\* roomsCache[cacheKey] = roomData
CachePut(cache, key, rd) ==
    [k \in DOMAIN cache \cup {key} |-> IF k = key THEN rd ELSE cache[k]]

\* roomsCache: {}
EmptyCache == [k \in {} |-> <<>>]

CacheIdle ==
    /\ roomsCache = EmptyCache
    /\ fetches = {}
    /\ callCount = 0

(***************************************************************************)
(* Room selection of map-init.js.  A room group is named by its place in   *)
(* #rooms-group.                                                           *)
(***************************************************************************)
\* selectRoom without the removal of the previous mark
SelectRoomKeepingPrevious(sel, marks, roomGroup) ==
    [selectedRoom |-> <<roomGroup>>, marks |-> marks \cup {roomGroup}]

\* selectRoom(roomGroup): selectedRoom and the 'selected' marks afterwards
SelectRoom(sel, marks, roomGroup) ==
    [ selectedRoom |-> <<roomGroup>>,
      marks |-> (IF sel # <<>> THEN marks \ {sel[1]} ELSE marks) \cup {roomGroup} ]

\* clearSelection(): selectedRoom and the 'selected' marks afterwards
ClearSelection(sel, marks) ==
    IF sel # <<>> THEN [selectedRoom |-> <<>>, marks |-> marks \ {sel[1]}]
    ELSE [selectedRoom |-> sel, marks |-> marks]

\* getSelectedRoom(): <<>> for null, else <<{name, region, element}>>
GetSelectedRoom(sel, groups) ==
    IF sel = <<>> THEN <<>>
    ELSE <<[name |-> groups[sel[1]].dataRoom, region |-> groups[sel[1]].dataRegion,
            element |-> sel[1]]>>

\* the room groups on the page when rooms are selected: three placed rooms
PlacedGroups ==
    RenderBatch(<<Room("A", "CC", 2, 1, <<>>), Room("B", "CC", 2, 1, <<>>),
                  Room("C", "CC", 1, 1, <<>>)>>,
                [groups |-> <<>>, count |-> 0], FALSE, RegionTable).groups

SelectIdle ==
    /\ selectedRoom = <<>>
    /\ selectedClass = {}
    /\ hoveredClass = {}
    /\ infoHidden = TRUE

(***************************************************************************)
(* parseRoomFile as a process: one step per line, then the store.          *)
(***************************************************************************)
ScanState == [rd |-> roomData, gs |-> geometryStarted, tl |-> tileLines, brk |-> parsePc = "break"]

\* no parse is running
ParseIdle ==
    /\ lines = <<>>
    /\ lineNo = 0
    /\ roomData = NewRoomData(ArgRegionCode, ArgRoomName)
    /\ geometryStarted = FALSE
    /\ tileLines = <<>>
    /\ parsePc = "idle"

ParseInit ==
    /\ lines \in RoomFiles
    /\ lineNo = 0
    /\ roomData = NewRoomData(ArgRegionCode, ArgRoomName)
    /\ geometryStarted = FALSE
    /\ tileLines = <<>>
    /\ parsePc = "scan"

\* the loop body on the next line
ParseLine ==
    /\ parsePc = "scan"
    /\ lineNo < Len(lines)
    /\ LET s == ScanStep(ScanState, lines[lineNo + 1]) IN
        /\ roomData' = s.rd
        /\ geometryStarted' = s.gs
        /\ tileLines' = s.tl
        /\ parsePc' = IF s.brk THEN "break" ELSE "scan"
    /\ lineNo' = lineNo + 1
    /\ UNCHANGED <<lines, renderVars, viewVars, loadVars, cacheVars, selectVars>>

\* after the loop: store the tile map and return
ParseReturn ==
    /\ \/ parsePc = "scan" /\ lineNo = Len(lines)
       \/ parsePc = "break"
    /\ roomData' = StoreTileMap(ScanState)
    /\ parsePc' = "done"
    /\ UNCHANGED <<lines, lineNo, geometryStarted, tileLines, renderVars, viewVars, loadVars, cacheVars, selectVars>>

ParseNext == ParseLine \/ ParseReturn

InitParse == ParseInit /\ RenderIdle /\ ViewIdle /\ LoadIdle /\ CacheIdle /\ SelectIdle

SpecParse == InitParse /\ [][ParseNext]_vars

(***************************************************************************)
(* The renderer API as a process: calls of renderRoomToSVG and             *)
(* getRoomAtPoint in any order.                                            *)
(***************************************************************************)
RenderInit ==
    /\ usePrecompiled \in BOOLEAN
    /\ regionPositions = RegionTable
    /\ svgGroup = <<>>
    /\ ret = NoCall

\* a call renderRoomToSVG(rd, svgGroup)
CallRenderRoomToSVG ==
    /\ Len(svgGroup) < MaxRooms
    /\ \E rd \in RoomInputs :
        LET result == RenderRoomToSVG(rd, usePrecompiled, regionPositions) IN
        /\ svgGroup' = svgGroup \o result
        /\ ret' = [op |-> "render", roomData |-> rd, result |-> result]
    /\ UNCHANGED <<usePrecompiled, regionPositions, parseVars, selectVars, viewVars, loadVars, cacheVars>>

\* a call getRoomAtPoint(x, y, svgGroup)
CallGetRoomAtPoint ==
    /\ \E x \in EdgeXs, y \in EdgeYs :
        ret' = [op |-> "hit", x |-> x, y |-> y, result |-> GetRoomAtPoint(x, y, svgGroup)]
    /\ UNCHANGED <<usePrecompiled, regionPositions, svgGroup, parseVars, selectVars, viewVars, loadVars, cacheVars>>

\* a call resetMapView() (window.mapControls.reset)
CallResetMapView ==
    /\ LET r == ResetMapView(svgGroup) IN
        /\ viewBox' = r
        /\ svgViewBox' = <<r>>
    /\ ret' = [op |-> "reset"]
    /\ UNCHANGED <<usePrecompiled, regionPositions, svgGroup, lastEvent, wheelCount,
                   isDragging, dragStart, startViewBox, dragCount, parseVars, selectVars,
                   loadVars, cacheVars>>

RenderNext == CallRenderRoomToSVG \/ CallGetRoomAtPoint \/ CallResetMapView

InitRender == RenderInit /\ ParseIdle /\ ViewIdle /\ LoadIdle /\ CacheIdle /\ SelectIdle

SpecRender == InitRender /\ [][RenderNext]_vars

\* the pan and zoom script alone
InitView == ViewInit /\ ParseIdle /\ RenderIdle /\ LoadIdle /\ CacheIdle /\ SelectIdle

SpecView == InitView /\ [][ViewNext]_vars

(***************************************************************************)
(* The page load as a process: RoomRenderer.init step by step, then        *)
(* renderAllRegions region by region, then the end of the handler.         *)
(***************************************************************************)
LoadInit ==
    /\ files \in FileInputs
    /\ allRooms = <<>>
    /\ loadPc = "init"
    /\ pending = {}
    /\ regionBatch = <<>>
    /\ counts = <<>>
    /\ roomCount = <<>>
    /\ usePrecompiled = FALSE
    /\ regionPositions = NoRegions
    /\ svgGroup = <<>>
    /\ ret = NoCall

\* init: loadPrecompiledData and the test of its result
LoadPrecompiledData ==
    /\ loadPc = "init"
    /\ IF files.precompiled # <<>> /\ Len(files.precompiled[1].rooms) > 0
       THEN /\ usePrecompiled' = TRUE
            /\ regionPositions' = IF files.precompiled[1].regionPositions = <<>> THEN NoRegions
                                  ELSE files.precompiled[1].regionPositions[1]
            /\ allRooms' = files.precompiled[1].rooms
            /\ loadPc' = "initialized"
       ELSE /\ usePrecompiled' = FALSE
            /\ loadPc' = "regionPositions"
            /\ UNCHANGED <<regionPositions, allRooms>>
    /\ UNCHANGED <<files, pending, regionBatch, counts, roomCount, svgGroup, ret,
                   parseVars, selectVars, viewVars, cacheVars>>

\* init: await this.loadRegionPositions(); it rethrows, and init returns false
LoadRegionPositions ==
    /\ loadPc = "regionPositions"
    /\ IF files.regionPos = <<>>
       THEN loadPc' = "failed" /\ UNCHANGED regionPositions
       ELSE loadPc' = "metadata" /\ regionPositions' = files.regionPos[1]
    /\ UNCHANGED <<files, allRooms, pending, regionBatch, counts, roomCount,
                   usePrecompiled, svgGroup, ret, parseVars, selectVars, viewVars, cacheVars>>

\* init: await this.loadAllRoomMetadata(), up to the Promise.all; it rethrows
\* too.  A region folder XX-rooms is written as its region code XX.
LoadAllRoomMetadata ==
    /\ loadPc = "metadata"
    /\ IF files.regionsTxt = <<>>
       THEN loadPc' = "failed" /\ UNCHANGED pending
       ELSE /\ pending' = {files.regionsTxt[1][i] : i \in 1..Len(files.regionsTxt[1])}
            /\ loadPc' = IF Len(files.regionsTxt[1]) = 0 THEN "initialized" ELSE "roomLists"
    /\ UNCHANGED <<files, allRooms, regionBatch, counts, roomCount,
                   renderVars, parseVars, selectVars, viewVars, cacheVars>>

\* loadRegionRoomList(region), when its fetch settles; init returns true
\* after the last one
LoadRegionRoomList ==
    /\ loadPc = "roomLists"
    /\ \E region \in pending :
        /\ allRooms' = Put(allRooms, region,
                           IF region \in files.roomLists
                           THEN [i \in 1..Len(RoomListFiles[region]) |->
                                    RoomNameEntry(RoomListFiles[region][i])]
                           ELSE <<>>)
        /\ pending' = pending \ {region}
        /\ loadPc' = IF pending = {region} THEN "initialized" ELSE "roomLists"
    /\ UNCHANGED <<files, regionBatch, counts, roomCount,
                   renderVars, parseVars, selectVars, viewVars, cacheVars>>

\* the page: if (!initialized) throw ..., caught by the handler's catch
PageShowsError ==
    /\ loadPc = "failed"
    /\ loadPc' = "error"
    /\ UNCHANGED <<files, allRooms, pending, regionBatch, counts, roomCount,
                   renderVars, parseVars, selectVars, viewVars, cacheVars>>

\* the page calls renderAllRegions, which takes its region batch
CallRenderAllRegions ==
    /\ loadPc = "initialized"
    /\ regionBatch' = Slice(Keys(allRooms), RegionSliceLimit)
    /\ loadPc' = "rendering"
    /\ UNCHANGED <<files, allRooms, pending, counts, roomCount,
                   renderVars, parseVars, selectVars, viewVars, cacheVars>>

\* regionBatch.map(region => this.renderRegion(region, svgGroup)), one region
CallRenderRegion ==
    /\ loadPc = "rendering"
    /\ Len(counts) < Len(regionBatch)
    /\ LET r == RenderRegion(regionBatch[Len(counts) + 1], allRooms, svgGroup,
                             usePrecompiled, regionPositions) IN
        /\ svgGroup' = r.groups
        /\ counts' = Append(counts, r.count)
    /\ UNCHANGED <<files, allRooms, loadPc, pending, regionBatch, roomCount,
                   usePrecompiled, regionPositions, ret, parseVars, selectVars, viewVars, cacheVars>>

\* renderAllRegions resolves with the total; the page adjusts the SVG bounds
\* and shows 'Map ready'
PageShowsReady ==
    /\ loadPc = "rendering"
    /\ Len(counts) = Len(regionBatch)
    /\ roomCount' = <<Sum(counts)>>
    /\ svgViewBox' = AdjustSVGBounds(svgGroup, svgViewBox)
    /\ loadPc' = "ready"
    /\ UNCHANGED <<files, allRooms, pending, regionBatch, counts, renderVars,
                   viewBox, lastEvent, wheelCount, isDragging, dragStart, startViewBox,
                   dragCount, parseVars, selectVars, cacheVars>>

LoadNext ==
    \/ LoadPrecompiledData \/ LoadRegionPositions \/ LoadAllRoomMetadata
    \/ LoadRegionRoomList \/ PageShowsError
    \/ CallRenderAllRegions \/ CallRenderRegion \/ PageShowsReady

InitLoad == LoadInit /\ ParseIdle /\ ViewIdle /\ CacheIdle /\ SelectIdle

SpecLoad == InitLoad /\ [][LoadNext]_vars

(***************************************************************************)
(* loadRoomGeometry as a process: calls may overlap, each waiting for its  *)
(* own fetch.                                                              *)
(***************************************************************************)
\* loadRoomGeometry(regionCode, roomName) up to its return from the cache
\* or to its await fetch(filePath)
CallLoadRoomGeometry ==
    /\ callCount < MaxCalls
    /\ \E regionCode \in CacheRegionCodes, roomName \in CacheRoomNames :
        LET cacheKey == CacheKey(regionCode, roomName) IN
        IF cacheKey \in DOMAIN roomsCache
        THEN /\ ret' = [op |-> "load", regionCode |-> regionCode, roomName |-> roomName,
                        result |-> <<roomsCache[cacheKey]>>]
             /\ UNCHANGED fetches
        ELSE /\ fetches' = fetches \cup {[id |-> callCount + 1, regionCode |-> regionCode,
                                          roomName |-> roomName]}
             /\ UNCHANGED ret
    /\ callCount' = callCount + 1
    /\ UNCHANGED <<roomsCache, usePrecompiled, regionPositions, svgGroup,
                   parseVars, selectVars, viewVars, loadVars>>

\* the rest of a call whose fetch has settled: not ok (or an error) gives
\* null, ok parses the text, stores the record and returns it
FetchSettles ==
    /\ \E f \in fetches, ok \in BOOLEAN :
        LET cleanRoomName == CleanRoomName(f.roomName)
            roomDataOut == ParseRoomFile(RoomFileText(f.regionCode, cleanRoomName),
                                         f.regionCode, cleanRoomName) IN
        /\ fetches' = fetches \ {f}
        /\ IF ok
           THEN /\ roomsCache' = CachePut(roomsCache, CacheKey(f.regionCode, f.roomName), roomDataOut)
                /\ ret' = [op |-> "load", regionCode |-> f.regionCode, roomName |-> f.roomName,
                           result |-> <<roomDataOut>>]
           ELSE /\ ret' = [op |-> "load", regionCode |-> f.regionCode, roomName |-> f.roomName,
                           result |-> <<>>]
                /\ UNCHANGED roomsCache
    /\ UNCHANGED <<callCount, usePrecompiled, regionPositions, svgGroup,
                   parseVars, selectVars, viewVars, loadVars>>

CacheNext == CallLoadRoomGeometry \/ FetchSettles

InitCache == CacheIdle /\ ParseIdle /\ RenderIdle /\ ViewIdle /\ LoadIdle /\ SelectIdle

SpecCache == InitCache /\ [][CacheNext]_vars

(***************************************************************************)
(* Room selection as a process: clicks and hovers on the placed rooms and  *)
(* calls of selectRoom, getSelectedRoom and clearSelection in any order.   *)
(***************************************************************************)
SelectInit ==
    /\ selectedRoom = <<>>
    /\ selectedClass = {}
    /\ hoveredClass = {}
    /\ infoHidden \in BOOLEAN
    /\ usePrecompiled = FALSE
    /\ regionPositions = RegionTable
    /\ svgGroup = PlacedGroups
    /\ ret = NoCall

\* the effect of selectRoom(roomGroup), reached by way of `via`; data-room
\* is never empty, so the info display is shown
Selects(roomGroup, via) ==
    LET r == SelectRoom(selectedRoom, selectedClass, roomGroup) IN
    /\ selectedRoom' = r.selectedRoom
    /\ selectedClass' = r.marks
    /\ infoHidden' = FALSE
    /\ ret' = [op |-> "select", via |-> via, roomGroup |-> roomGroup,
               previous |-> selectedRoom]
    /\ UNCHANGED <<hoveredClass, usePrecompiled, regionPositions, svgGroup,
                   parseVars, viewVars, loadVars, cacheVars>>

\* a call selectRoom(roomGroup)
CallSelectRoom == \E roomGroup \in 1..Len(svgGroup) : Selects(roomGroup, "call")

\* the 'click' listener of #map-container, for a click on a room (other
\* clicks change nothing): ignored while dragging
ClickRoom ==
    /\ ~isDragging
    /\ \E roomGroup \in 1..Len(svgGroup) : Selects(roomGroup, "click")

\* a call getSelectedRoom()
CallGetSelectedRoom ==
    /\ ret' = [op |-> "getSelected", result |-> GetSelectedRoom(selectedRoom, svgGroup)]
    /\ UNCHANGED <<selectVars, usePrecompiled, regionPositions, svgGroup,
                   parseVars, viewVars, loadVars, cacheVars>>

\* a call clearSelection()
CallClearSelection ==
    /\ LET r == ClearSelection(selectedRoom, selectedClass) IN
        /\ selectedRoom' = r.selectedRoom
        /\ selectedClass' = r.marks
    /\ infoHidden' = TRUE
    /\ ret' = [op |-> "clear", previous |-> selectedRoom]
    /\ UNCHANGED <<hoveredClass, usePrecompiled, regionPositions, svgGroup,
                   parseVars, viewVars, loadVars, cacheVars>>

\* the 'mouseover' listener of #rooms-group, over a room
MouseOverRoom ==
    /\ \E roomGroup \in 1..Len(svgGroup) :
        hoveredClass' = IF roomGroup \notin selectedClass
                        THEN hoveredClass \cup {roomGroup}
                        ELSE hoveredClass
    /\ UNCHANGED <<selectedRoom, selectedClass, infoHidden, renderVars,
                   parseVars, viewVars, loadVars, cacheVars>>

\* the 'mouseout' listener of #rooms-group, out of a room
MouseOutRoom ==
    /\ \E roomGroup \in 1..Len(svgGroup) : hoveredClass' = hoveredClass \ {roomGroup}
    /\ UNCHANGED <<selectedRoom, selectedClass, infoHidden, renderVars,
                   parseVars, viewVars, loadVars, cacheVars>>

SelectNext ==
    \/ CallSelectRoom
    \/ ClickRoom
    \/ CallGetSelectedRoom
    \/ CallClearSelection
    \/ MouseOverRoom
    \/ MouseOutRoom

InitSelect == SelectInit /\ ParseIdle /\ ViewIdle /\ LoadIdle /\ CacheIdle

SpecSelect == InitSelect /\ [][SelectNext]_vars

(***************************************************************************)
(* Claims about parseRoomFile.                                             *)
(***************************************************************************)
ParseDone == parsePc = "done"

Trimmed(i) == Trim(lines[i])

\* the lines of the file of the form -?\d+x-?\d+ (the size form included)
NumberLineIdx == {i \in 1..Len(lines) : IsPositionLine(Trimmed(i))}
MinOf(S) == CHOOSE i \in S : \A j \in S : i <= j
MaxOf(S) == CHOOSE i \in S : \A j \in S : j <= i

\* no line of the file is an end marker, so the scan reads every line
NoEndLine == \A i \in 1..Len(lines) : ~StartsWith(Trimmed(i), EndMarker)

\* The documented layout: the size line WxH, then the position line XxY.
\* SizeIdx / PosIdx are the places of the two lines, 0 when absent.
SizeIdx ==
    IF Cardinality(NumberLineIdx) \in {1, 2} /\ IsSizeLine(Trimmed(MinOf(NumberLineIdx)))
    THEN MinOf(NumberLineIdx) ELSE 0
PosIdx ==
    IF Cardinality(NumberLineIdx) = 2 /\ SizeIdx # 0 THEN MaxOf(NumberLineIdx)
    ELSE IF Cardinality(NumberLineIdx) = 1 /\ SizeIdx = 0 THEN MinOf(NumberLineIdx)
    ELSE 0

RemoveAt(q, i) == SubSeq(q, 1, i - 1) \o SubSeq(q, i + 1, Len(q))

\* C1: a file with a size line WxH (and no end marker before it) is parsed
\* to width = W and height = H, whatever the other lines are.
C1_SizeLineGivesWidthHeight ==
    (ParseDone /\ NoEndLine /\ SizeIdx # 0) =>
        /\ roomData.width = Number(BeforeX(Trimmed(SizeIdx)))
        /\ roomData.height = Number(AfterX(Trimmed(SizeIdx)))

\* C2: a file with a position line XxY, signed or not, is parsed to
\* position = {X, Y}, and its width and height are those of the same file
\* without that line.
C2_PositionLineGivesPosition ==
    (ParseDone /\ NoEndLine /\ PosIdx # 0) =>
        /\ roomData.position = [x |-> SignedNumber(BeforeX(Trimmed(PosIdx))),
                                y |-> SignedNumber(AfterX(Trimmed(PosIdx)))]
        /\ LET without == ParseRoomFile(RemoveAt(lines, PosIdx), ArgRegionCode, ArgRoomName) IN
            roomData.width = without.width /\ roomData.height = without.height

\* some line read so far contains both ( and |
SeenParenPipe == \E i \in 1..lineNo : IsGeometryText(Trimmed(i))

\* some line read so far contains both ( and |, is no Piece line and does
\* not begin with a tile-code character
IsGeometryLine(t) == IsGeometryText(t) /\ ~IsPieceLine(t) /\ ~IsTileStart(t)
SeenGeometryLine == \E i \in 1..lineNo : IsGeometryLine(Trimmed(i))

\* C3 as stated: once any line containing both ( and | has been read, no
\* later line is appended to the tile grid.
C3_NoTileRowAfterParenPipe == [][SeenParenPipe => tileLines' = tileLines]_vars

\* C3 amended: once a line containing both ( and | that is neither a Piece
\* line nor begins with a tile-code character has been read, no later line is
\* appended to the tile grid, whatever its leading character.
C3_NoTileRowAfterGeometryLine == [][SeenGeometryLine => tileLines' = tileLines]_vars

\* a tile-looking line was read after a geometry line and was not collected
C3_Witness ==
    /\ lineNo >= 2
    /\ \E i \in 1..(lineNo - 1) : IsGeometryLine(Trimmed(i))
    /\ IsTileStart(Trimmed(lineNo))
    /\ tileLines = <<>>
    /\ Len(roomData.geometry) >= 1

DocumentedTileChars == {".", "#", "|", "+", "-", "=", "H", "/"}

\* C17: a line is appended to the tile grid only if geometry collection has
\* not started, the line matches none of the Piece, size and position rules,
\* and its first character (after trimming) is one of . # | + - = H /
C17_OnlyDocumentedTileCodes ==
    [][tileLines' # tileLines =>
        /\ ~geometryStarted
        /\ ~IsPieceLine(Trimmed(lineNo'))
        /\ ~IsSizeLine(Trimmed(lineNo'))
        /\ ~IsPositionLine(Trimmed(lineNo'))
        /\ Trimmed(lineNo') # <<>>
        /\ Head(Trimmed(lineNo')) \in DocumentedTileChars]_vars

\* the file has no Piece line
NoPieceLine == \A i \in 1..Len(lines) : ~IsPieceLine(Trimmed(i))

\* C18: in a file without a Piece line the end-marker check matches no line:
\* the scan never breaks and reads every line of the file.
C18_NoPieceNoEarlyStop ==
    NoPieceLine => /\ parsePc # "break"
                   /\ (ParseDone => lineNo = Len(lines))

\* line i is `end file : ` followed by the fullName captured from the lines
\* before it
EndMarkerAt(i) ==
    LET fullName == ScanLines(NewScan(ArgRegionCode, ArgRoomName), SubSeq(lines, 1, i - 1)).rd.fullName IN
    fullName # <<>> /\ Trimmed(i) = EndLineFor(fullName)

\* the returned record is that of the file cut after line i
CutAfter(i) == roomData = ParseRoomFile(SubSeq(lines, 1, i), ArgRegionCode, ArgRoomName)

\* C19 as stated: the lines after an end-marker line change no field of the
\* returned record.
C19_NothingAfterEndMarker ==
    ParseDone => \A i \in 1..Len(lines) : EndMarkerAt(i) => CutAfter(i)

\* C19 amended: the lines after an end-marker line that does not contain
\* both ( and | change no field of the returned record.
C19_NothingAfterPlainEndMarker ==
    ParseDone => \A i \in 1..Len(lines) :
        (EndMarkerAt(i) /\ ~IsGeometryText(Trimmed(i))) => CutAfter(i)

\* a size line after the end marker was left unread
C19_Witness ==
    /\ ParseDone
    /\ Len(lines) = 3
    /\ EndMarkerAt(2) /\ ~IsGeometryText(Trimmed(2))
    /\ IsSizeLine(Trimmed(3))
    /\ lineNo = 2
    /\ roomData.width = 0

(***************************************************************************)
(* Claims about the placement and the hit test.                            *)
(***************************************************************************)
IsRender(r) == r.op = "render"
UsesWorldPos(rd) == usePrecompiled /\ rd.worldPos # <<>>
RegionKnown(rd) == rd.regionCode \in DOMAIN regionPositions

\* C5 as stated: a call of renderRoomToSVG with a record whose region has no
\* known position, or whose width or height is not positive, returns null and
\* leaves the SVG group as it was, in either renderer mode.
C5_NoPlacementInEveryMode ==
    [][(IsRender(ret') /\ (~RegionKnown(ret'.roomData) \/ ret'.roomData.width <= 0
                            \/ ret'.roomData.height <= 0))
        => (ret'.result = <<>> /\ svgGroup' = svgGroup)]_vars

\* C5 amended: the call returns null and inserts nothing when the record's
\* width or height is 0, or when the position has to be computed from the
\* region offsets (the precompiled worldPos is not in use) and the region has
\* no known position.
C5_NoPlacementWhenUnrenderable ==
    [][(IsRender(ret') /\ (ret'.roomData.width = 0 \/ ret'.roomData.height = 0
                            \/ (~UsesWorldPos(ret'.roomData) /\ ~RegionKnown(ret'.roomData))))
        => (ret'.result = <<>> /\ svgGroup' = svgGroup)]_vars

\* a room of an unknown region was refused after another room was placed
C5_Witness ==
    /\ IsRender(ret)
    /\ ~RegionKnown(ret.roomData) /\ ~UsesWorldPos(ret.roomData)
    /\ ret.roomData.width > 0 /\ ret.roomData.height > 0
    /\ ret.result = <<>>
    /\ Len(svgGroup) >= 1

\* the group the last call inserted, when it inserted one
Inserted == IsRender(ret) /\ ret.result # <<>>
SizeAttributesRight(g, rd) ==
    /\ g.dataWidth = NumToString(rd.width * TILE_SIZE)
    /\ g.dataHeight = NumToString(rd.height * TILE_SIZE)
OffsetAttributesRight(g, rd) ==
    /\ RegionKnown(rd)
    /\ g.dataPosX = NumToString((regionPositions[rd.regionCode].x + rd.position.x) * TILE_SIZE)
    /\ g.dataPosY = NumToString((regionPositions[rd.regionCode].y + rd.position.y) * TILE_SIZE)

\* C6 as stated: every inserted room group carries the position computed from
\* the region offset and the room position, and the size, all times TILE_SIZE.
C6_AttributesFromOffsets ==
    Inserted =>
        /\ svgGroup # <<>> /\ svgGroup[Len(svgGroup)] = ret.result[1]
        /\ OffsetAttributesRight(ret.result[1], ret.roomData)
        /\ SizeAttributesRight(ret.result[1], ret.roomData)

\* C6 amended: every inserted room group carries data-width and data-height
\* as stated; data-pos-x and data-pos-y are as stated when the position is
\* computed from the region offsets, and are the record's worldPos.x and
\* worldPos.y when precompiled data is in use and the record has a worldPos.
C6_AttributesOfInsertedGroup ==
    Inserted =>
        /\ svgGroup # <<>> /\ svgGroup[Len(svgGroup)] = ret.result[1]
        /\ SizeAttributesRight(ret.result[1], ret.roomData)
        /\ IF UsesWorldPos(ret.roomData)
           THEN /\ ret.result[1].dataPosX = NumToString(ret.roomData.worldPos[1].x)
                /\ ret.result[1].dataPosY = NumToString(ret.roomData.worldPos[1].y)
           ELSE OffsetAttributesRight(ret.result[1], ret.roomData)

\* a room two tiles wide was placed from its region offset
C6_Witness ==
    /\ Inserted
    /\ ~UsesWorldPos(ret.roomData)
    /\ ret.roomData.width = 2 /\ ret.roomData.height = 1
    /\ svgGroup[Len(svgGroup)].dataWidth = <<"3", "0">>

\* C7: region CC at (-570, 897), room at (-749, -582), position computed from
\* the offsets: the room is placed at worldX = -26380, worldY = 6300.
C7_ExampleScaledBy20 ==
    (/\ Inserted
     /\ ~UsesWorldPos(ret.roomData)
     /\ ret.roomData.regionCode = "CC"
     /\ regionPositions["CC"] = [x |-> 0 - 570, y |-> 897]
     /\ ret.roomData.position = [x |-> 0 - 749, y |-> 0 - 582])
    => /\ ret.result[1].dataPosX = NumToString(0 - 26380)
       /\ ret.result[1].dataPosY = NumToString(6300)

\* the placed rooms whose box contains the point
Containing(x, y) ==
    {i \in 1..Len(svgGroup) :
        LET b == svgGroup[i].placement IN
        b.x <= x /\ x < b.x + b.w /\ b.y <= y /\ y < b.y + b.h}

\* C8: getRoomAtPoint returns the first room in insertion order whose box
\* contains the point, and null exactly when no placed room's box does.
C8_FirstContainingRoom ==
    ret.op = "hit" =>
        IF Containing(ret.x, ret.y) = {} THEN ret.result = <<>>
        ELSE /\ ret.result # <<>>
             /\ ret.result[1].svgElement = MinOf(Containing(ret.x, ret.y))
             /\ ret.result[1].x = svgGroup[ret.result[1].svgElement].placement.x
             /\ ret.result[1].y = svgGroup[ret.result[1].svgElement].placement.y
             /\ ret.result[1].region = svgGroup[ret.result[1].svgElement].dataRegion

\* a point inside two overlapping, different rooms gave the first one
C8_Witness ==
    /\ ret.op = "hit"
    /\ Cardinality(Containing(ret.x, ret.y)) = 2
    /\ svgGroup[1] # svgGroup[2]
    /\ ret.result # <<>>
    /\ ret.result[1].svgElement = 1

(***************************************************************************)
(* Claims about the wheel (zoom) handler.                                  *)
(***************************************************************************)
InRange(v) == ~RLess(v, RInt(MinExtent)) /\ ~RLess(RInt(MaxExtent), v)

\* C9: after every wheel event the width and the height of the view
\* rectangle lie within [500, 50000].
C9_ExtentsWithinRange ==
    lastEvent.type = "wheel" => InRange(viewBox.width) /\ InRange(viewBox.height)

\* the world point under the cursor of event ev in the view rectangle vb
UnderCursor(vb, ev) ==
    [x |-> RAdd(vb.x, RMul(Rat(ev.mouseX, ViewportW), vb.width)),
     y |-> RAdd(vb.y, RMul(Rat(ev.mouseY, ViewportH), vb.height))]

\* C10: a wheel event leaves the world point under the cursor where it was:
\* the point under the cursor in the rectangle shown before the event is the
\* point under the cursor in the rectangle set by the event.
C10_CursorPointFixed ==
    [][wheelCount' # wheelCount =>
        UnderCursor(GetViewBox(svgViewBox, viewBox), lastEvent') = UnderCursor(viewBox', lastEvent')]_vars

\* a zoom out at an inner cursor position whose extents were cut by the clamp
\* and then stretched back to the aspect ratio
C10_Witness ==
    /\ lastEvent.type = "wheel"
    /\ lastEvent.deltaY > 0
    /\ lastEvent.mouseX = 1
    /\ RLess(RInt(MaxExtent), viewBox.width)
    /\ viewBox.x # RInt(0 - 26880)

\* a rectangle within 1 of another in every component (rounding tolerance)
RAbs(a) == [n |-> Abs(a.n), d |-> a.d]
Near(a, b) ==
    /\ RLess(RAbs(RSub(a.x, b.x)), RInt(1))
    /\ RLess(RAbs(RSub(a.y, b.y)), RInt(1))
    /\ RLess(RAbs(RSub(a.width, b.width)), RInt(1))
    /\ RLess(RAbs(RSub(a.height, b.height)), RInt(1))

\* both extents stay strictly inside the clamp limits after a zoom in and
\* after a zoom out
AwayFromClamp(vb) ==
    /\ RLess(RInt(MinExtent), RMul(vb.width, Rat(4, 5)))
    /\ RLess(RInt(MinExtent), RMul(vb.height, Rat(4, 5)))
    /\ RLess(RMul(vb.width, Rat(6, 5)), RInt(MaxExtent))
    /\ RLess(RMul(vb.height, Rat(6, 5)), RInt(MaxExtent))

\* this step is a wheel event that undoes the wheel event before it: same
\* cursor position, opposite direction
InverseWheelStep ==
    /\ wheelCount' # wheelCount
    /\ lastEvent.type = "wheel"
    /\ lastEvent'.mouseX = lastEvent.mouseX /\ lastEvent'.mouseY = lastEvent.mouseY
    /\ lastEvent'.deltaY # lastEvent.deltaY

\* C11: a wheel step followed by the opposite wheel step at the same cursor
\* position, from a rectangle whose extents are away from the clamp limits,
\* gives back the rectangle's x, y, width and height (within 1).
C11_ZoomRoundTrip ==
    [][(InverseWheelStep /\ AwayFromClamp(lastEvent.before))
        => Near(viewBox', lastEvent.before)]_vars

(***************************************************************************)
(* Claims about the drag (pan) handlers and the reset.                     *)
(***************************************************************************)
\* this step is a mousemove handled during a drag
MoveStep == lastEvent'.type = "mousemove" /\ lastEvent' # lastEvent

\* C12: a pointer move during a drag only translates the rectangle: x and y
\* are the drag-start x and y less the pointer delta scaled by the extent of
\* the rectangle in force over the container size, and the width and height
\* after the move are those immediately before it, wheel events included.
C12_MoveOnlyTranslates ==
    [][MoveStep =>
        /\ viewBox'.width = viewBox.width
        /\ viewBox'.height = viewBox.height
        /\ viewBox'.x = RSub(startViewBox.x,
                RMul(Rat(lastEvent'.mouseX - dragStart.x, ViewportW), viewBox.width))
        /\ viewBox'.y = RSub(startViewBox.y,
                RMul(Rat(lastEvent'.mouseY - dragStart.y, ViewportH), viewBox.height))]_vars

\* the placed rooms' boxes
Placements == {svgGroup[i].placement : i \in 1..Len(svgGroup)}

\* the box b lies inside the rectangle vb
Inside(b, vb) ==
    /\ ~RLess(RInt(b.x), vb.x)
    /\ ~RLess(RInt(b.y), vb.y)
    /\ ~RLess(RAdd(vb.x, vb.width), RInt(b.x + b.w))
    /\ ~RLess(RAdd(vb.y, vb.height), RInt(b.y + b.h))

\* C13: resetMapView sets the view rectangle to the bounding box of the placed
\* rooms widened by 200 on every side, so every placed room lies inside it;
\* with no placed room it sets the default rectangle (0, 0, 10000, 10000).
C13_ResetFitsRooms ==
    ret.op = "reset" =>
        /\ svgViewBox = <<viewBox>>
        /\ IF svgGroup = <<>> THEN viewBox = InitialViewBox
           ELSE LET left == SetMin({b.x : b \in Placements})
                    top == SetMin({b.y : b \in Placements})
                    right == SetMax({b.x + b.w : b \in Placements})
                    bottom == SetMax({b.y + b.h : b \in Placements}) IN
                /\ viewBox.x = RInt(left - 200)
                /\ viewBox.y = RInt(top - 200)
                /\ RAdd(viewBox.x, viewBox.width) = RInt(right + 200)
                /\ RAdd(viewBox.y, viewBox.height) = RInt(bottom + 200)
                /\ \A b \in Placements : Inside(b, viewBox)

\* the view was reset with two rooms placed at different positions
C13_Witness ==
    /\ ret.op = "reset"
    /\ Len(svgGroup) = 2
    /\ svgGroup[1].placement.x # svgGroup[2].placement.x
    /\ viewBox # InitialViewBox

(***************************************************************************)
(* Claims about loading, the room cache and bulk rendering.                *)
(***************************************************************************)
\* C14: whichever input file fails to load, RoomRenderer.init does not fail
\* and the page does not reach the error state.
C14_NoFileIsFatal == loadPc \notin {"failed", "error"}

\* the record a call returned is one parsed for the arguments of that call
ForArguments(r) ==
    r.result # <<>> =>
        /\ r.result[1].regionCode = r.regionCode
        /\ r.result[1].name = CleanRoomName(r.roomName)

\* C15: a call loadRoomGeometry(r, n) returns null or a record parsed for
\* region r and room n, and no entry of the cache is ever removed.
C15_CacheKeyedByPair ==
    [][/\ DOMAIN roomsCache \subseteq DOMAIN roomsCache'
       /\ (ret'.op = "load" => ForArguments(ret'))]_vars

\* the room group renderRoomToSVG builds for rd is in the SVG group
Placed(rd) ==
    \E i \in 1..Len(svgGroup) :
        <<svgGroup[i]>> = RenderRoomToSVG(rd, usePrecompiled, regionPositions)

\* rd has a size and a position to be placed at
Renderable(rd) == HasSize(rd) /\ RenderRoomToSVG(rd, usePrecompiled, regionPositions) # <<>>

\* every renderable room of the region entry e is in the SVG group
RegionPlaced(e) == \A j \in 1..Len(e.rooms) : Renderable(e.rooms[j]) => Placed(e.rooms[j])

\* C16: when renderAllRegions has resolved, renderRegion has run for every
\* region key of allRooms and every renderable room of every region is in the
\* SVG group.
C16_EveryRegionRendered ==
    loadPc = "ready" =>
        /\ Len(counts) = Len(allRooms)
        /\ \A i \in 1..Len(allRooms) : RegionPlaced(allRooms[i])

\* the room groups of a region in the SVG group
InsertedFor(region) == {i \in 1..Len(svgGroup) : svgGroup[i].dataRegion = region}

\* C20: the count renderRegion returned for a region is the number of room
\* groups inserted for it, the total of renderAllRegions is the number of room
\* groups inserted, and every renderable room of a rendered region is placed
\* whatever rooms were skipped.
C20_CountIsInserted ==
    /\ \A k \in 1..Len(counts) :
        /\ counts[k] = Cardinality(InsertedFor(regionBatch[k]))
        /\ RegionPlaced(allRooms[k])
    /\ roomCount # <<>> => roomCount[1] = Len(svgGroup)

(***************************************************************************)
(* Claims about the room selection.                                        *)
(***************************************************************************)
\* C21: at most one room group is marked 'selected', the marked group is the
\* one held in selectedRoom and reported by getSelectedRoom, and after
\* clearSelection no group is marked and getSelectedRoom returns null.
C21_OneSelection ==
    /\ Cardinality(selectedClass) <= 1
    /\ selectedClass = {selectedRoom[i] : i \in 1..Len(selectedRoom)}
    /\ \A g \in selectedClass :
        GetSelectedRoom(selectedRoom, svgGroup) =
            <<[name |-> svgGroup[g].dataRoom, region |-> svgGroup[g].dataRegion,
               element |-> g]>>
    /\ ret.op = "getSelected" => ret.result = GetSelectedRoom(selectedRoom, svgGroup)
    /\ ret.op = "clear" =>
        /\ selectedClass = {}
        /\ GetSelectedRoom(selectedRoom, svgGroup) = <<>>

\* a second room was selected while another one was selected and hovered
C21_Witness ==
    /\ ret.op = "select"
    /\ ret.previous # <<>>
    /\ ret.previous # selectedRoom
    /\ selectedClass = {ret.roomGroup}
    /\ ret.previous[1] \in hoveredClass

====
